---- MODULE Spec2Model ----
(***************************************************************************)
(* Battery monitor (batter-level.py): the fetch of one sensor value, the   *)
(* bounded retry with exponential backoff, and the main loop that keeps    *)
(* the last known good reading and the consecutive-failure counter.        *)
(*                                                                         *)
(* Units: battery levels are in tenths of a percent (85.0 -> 850), backoff *)
(* sleeps in hundredths of a second, clock and main-loop sleeps in seconds.*)
(***************************************************************************)
EXTENDS Integers, Sequences, FiniteSets, TLC

(* ---------------- configuration (batter-level.py:32-38) ---------------- *)
UPDATE_INTERVAL == 300
MAX_RETRIES == 3
INITIAL_RETRY_DELAY == 5
MAX_RETRY_DELAY == 60
RETRY_BACKOFF_MULTIPLIER == 2
SEVERE_FAILURES == 5
MAX_EXTENDED_WAIT == 1800

(* ---------------- bounds of the model ---------------------------------- *)
MaxFailures == 6
MaxTime == 900

(* Python's None and a present value v; Unset is a name not yet bound.      *)
None == [present |-> FALSE, v |-> 0]
Some(x) == [present |-> TRUE, v |-> x]
Unset == "unset"

(* random.uniform(0.1, 0.5), in percent of the delay *)
JitterPct == {10, 50}

Min(a, b) == IF a < b THEN a ELSE b

(* ---------------- get_battery_status ----------------------------------- *)
(* The 'state' strings the sensor may carry, as character sequences.       *)
StateStrings ==
  { <<"0">>, <<"1", "9", ".", "9">>, <<"8", "5">>, <<"o", "f", "f">>, <<>> }

Digits == {"0", "1", "2", "3", "4", "5", "6", "7", "8", "9"}

DigitVal(c) ==
  CASE c = "0" -> 0 [] c = "1" -> 1 [] c = "2" -> 2 [] c = "3" -> 3
    [] c = "4" -> 4 [] c = "5" -> 5 [] c = "6" -> 6 [] c = "7" -> 7
    [] c = "8" -> 8 [] c = "9" -> 9

RECURSIVE DigitsVal(_)
DigitsVal(s) ==
  IF s = <<>> THEN 0
  ELSE 10 * DigitsVal(SubSeq(s, 1, Len(s) - 1)) + DigitVal(s[Len(s)])

AllDigits(s) == \A i \in 1..Len(s) : s[i] \in Digits

DotAt(s) == { i \in 1..Len(s) : s[i] = "." }

(* float(str) on the decimal strings above: digits with at most one point  *)
(* and at most one fractional digit; anything else raises ValueError.      *)
(* The result is in tenths.                                                *)
ParseFloat(s) ==
  IF s # <<>> /\ AllDigits(s) THEN [exc |-> "none", val |-> Some(10 * DigitsVal(s))]
  ELSE IF Cardinality(DotAt(s)) = 1
       THEN LET d == CHOOSE i \in DotAt(s) : TRUE
                ip == SubSeq(s, 1, d - 1)
                fp == SubSeq(s, d + 1, Len(s))
            IN IF Len(ip) + Len(fp) > 0 /\ AllDigits(ip) /\ AllDigits(fp) /\ Len(fp) <= 1
               THEN [exc |-> "none", val |-> Some(10 * DigitsVal(ip) + DigitsVal(fp))]
               ELSE [exc |-> "ValueError", val |-> None]
       ELSE [exc |-> "ValueError", val |-> None]

(* What the server can answer to one request.                              *)
(*   net    : what requests.get does (line 81)                             *)
(*   status : "ok" or "bad" HTTP status (line 82)                          *)
(*   body   : "not_json", "not_object", or "object" (line 83)              *)
(*   state  : the 'state' member: missing, JSON null, or a string (line 86)*)
Missing == [kind |-> "missing", s |-> <<>>]
Null == [kind |-> "null", s |-> <<>>]
States == {Missing, Null} \cup [kind : {"str"}, s : StateStrings]

Responses ==
  [net : {"Timeout", "ConnectionError", "RequestException"},
   status : {"ok"}, body : {"object"}, state : {Missing}]
  \cup [net : {"response"}, status : {"bad"}, body : {"object"}, state : {Missing}]
  \cup [net : {"response"}, status : {"ok"}, body : {"not_json", "not_object"},
        state : {Missing}]
  \cup [net : {"response"}, status : {"ok"}, body : {"object"}, state : States]

(* Python's exception classes that occur here, each with its ancestors.    *)
Ancestors(e) ==
  CASE e = "Timeout"          -> {"Timeout", "RequestException", "Exception"}
    [] e = "ConnectionError"  -> {"ConnectionError", "RequestException", "Exception"}
    [] e = "HTTPError"        -> {"HTTPError", "RequestException", "Exception"}
    [] e = "RequestException" -> {"RequestException", "Exception"}
    [] e = "JSONDecodeError"  -> {"JSONDecodeError", "RequestException", "ValueError", "Exception"}
    [] e = "ValueError"       -> {"ValueError", "Exception"}
    [] e = "TypeError"        -> {"TypeError", "Exception"}
    [] e = "AttributeError"   -> {"AttributeError", "Exception"}
    [] e = "RuntimeError"     -> {"RuntimeError", "Exception"}
    [] e = "OSError"          -> {"OSError", "Exception"}
    [] OTHER                  -> {e}

(* data.get("state", 0): the default is the integer 0 *)
GetState(r) == IF r.state.kind = "missing" THEN [kind |-> "int", s |-> <<>>, n |-> 0]
               ELSE [kind |-> r.state.kind, s |-> r.state.s, n |-> 0]

(* float(x) for the argument of line 86: an int converts, None is a        *)
(* TypeError, a string is parsed.                                          *)
Float(x) ==
  IF x.kind = "null" THEN [exc |-> "TypeError", val |-> None]
  ELSE IF x.kind = "int" THEN [exc |-> "none", val |-> Some(10 * x.n)]
  ELSE ParseFloat(x.s)

(* The try body of get_battery_status, lines 81-88: the exception it       *)
(* raises ("none" when it reaches the return) and the value it returns.    *)
FetchBody(r) ==
  IF r.net # "response" THEN [exc |-> r.net, val |-> None]
  ELSE IF r.status = "bad" THEN [exc |-> "HTTPError", val |-> None]
  ELSE IF r.body = "not_json" THEN [exc |-> "JSONDecodeError", val |-> None]
  ELSE IF r.body = "not_object" THEN [exc |-> "AttributeError", val |-> None]
  ELSE Float(GetState(r))

(* variant: without the final "except Exception" *)
FetchHandlers_NoCatchAll ==
  <<"Timeout", "ConnectionError", "HTTPError", "RequestException", "ValueError">>

(* The except clauses of get_battery_status in source order, lines 89-106. *)
FetchHandlers ==
  <<"Timeout", "ConnectionError", "HTTPError", "RequestException", "ValueError", "Exception">>

Caught(e, handlers) == \E i \in 1..Len(handlers) : handlers[i] \in Ancestors(e)

(* get_battery_status: the value returned, None from every except clause;  *)
(* exc is the exception that leaves the function, "none" if it returns.    *)
get_battery_status(r) ==
  LET b == FetchBody(r)
  IN IF b.exc = "none" THEN b
     ELSE IF Caught(b.exc, FetchHandlers) THEN [exc |-> "none", val |-> None]
     ELSE b

(* ---------------- backoff of get_battery_status_with_retry -------------- *)
RECURSIVE Pow(_, _)
Pow(b, n) == IF n = 0 THEN 1 ELSE b * Pow(b, n - 1)

(* variant: the exponent counts attempts from 1 *)
Delay_OffByOne(a) ==
  Min(INITIAL_RETRY_DELAY * Pow(RETRY_BACKOFF_MULTIPLIER, a + 1), MAX_RETRY_DELAY)

(* line 60: delay in seconds before the retry that follows attempt a       *)
Delay(a) == Min(INITIAL_RETRY_DELAY * Pow(RETRY_BACKOFF_MULTIPLIER, a), MAX_RETRY_DELAY)

(* lines 62-63: jitter = uniform(0.1, 0.5) * delay, total = delay + jitter *)
(* in hundredths of a second, with the uniform draw j in percent           *)
TotalDelay(a, j) == 100 * Delay(a) + j * Delay(a)

(* variant: a wait after every failed attempt, the last included *)
BackoffDue_AfterLast(a) == a < MAX_RETRIES

(* line 58 *)
BackoffDue(a) == a < MAX_RETRIES - 1

(* line 50: for attempt in range(MAX_RETRIES) has a next iteration         *)
HasNextAttempt(a) == a + 1 < MAX_RETRIES

(* variant: the truth value of the level instead of "is not None" *)
IsSuccess_Truthy(level) == level # None /\ level.v # 0

(* line 54 *)
IsSuccess(level) == level # None

(* ---------------- rendering -------------------------------------------- *)
(* update_inky_display prints and re-raises whatever Exception its body    *)
(* raises (lines 289-292); "none" when the display was updated.            *)
update_inky_display(fault) == fault

(* variant: no except clause around the rendering *)
update_inky_display_safe_Uncaught(fault) ==
  IF update_inky_display(fault) = "none" THEN [exc |-> "none", ret |-> "True"]
  ELSE [exc |-> update_inky_display(fault), ret |-> Unset]

(* update_inky_display_safe, lines 113-119 *)
update_inky_display_safe(fault) ==
  IF update_inky_display(fault) = "none" THEN [exc |-> "none", ret |-> "True"]
  ELSE IF "Exception" \in Ancestors(update_inky_display(fault))
       THEN [exc |-> "none", ret |-> "False"]
       ELSE [exc |-> update_inky_display(fault), ret |-> Unset]

(* what can go wrong while drawing or presenting *)
RenderFaults == {"none", "RuntimeError", "OSError"}

(* ---------------- layout of update_inky_display ------------------------ *)
(* colours of the display and line 164: default_color for INKY_COLOUR      *)
RED == "RED"
YELLOW == "YELLOW"
BLACK == "BLACK"
default_color == BLACK

(* a percentage in the unit of the battery levels (tenths) *)
Tenths(p) == 10 * p

(* int(x) for a non-negative level in tenths *)
IntPart(v) == v \div 10

(* strftime("%H:%M") of a clock value in seconds *)
HHMM(t) == [h |-> (t \div 3600) % 24, m |-> (t \div 60) % 60]

(* geometry, lines 167 and 208-211, for the 212 x 104 display *)
DisplayWidth == 212
HeaderBand == 40
BarMargin == 8
BarWidth == DisplayWidth - 2 * BarMargin

(* variant: the caution band ends at 40 percent *)
BatteryColour_Shifted(level) ==
  IF level = None THEN RED
  ELSE IF level.v < Tenths(20) THEN RED
  ELSE IF level.v < Tenths(40) THEN YELLOW
  ELSE default_color

(* lines 171-188: battery_color *)
BatteryColour(level) ==
  IF level = None THEN RED
  ELSE IF level.v < Tenths(20) THEN RED
  ELSE IF level.v < Tenths(50) THEN YELLOW
  ELSE default_color

(* lines 171-188: status_symbol *)
StatusSymbol(level) ==
  IF level = None THEN "X"
  ELSE IF level.v < Tenths(20) THEN "!"
  ELSE IF level.v < Tenths(50) THEN "~"
  ELSE "+"

(* lines 182-188: main_text *)
MainText(level) ==
  IF level = None THEN [kind |-> "ERROR", n |-> 0]
  ELSE [kind |-> "pct", n |-> IntPart(level.v)]

(* lines 220-231: the bar is filled in proportion, or dotted on error;     *)
(* width 0 means nothing is drawn inside the outline                       *)
Bar(level) ==
  IF level = None THEN [kind |-> "dotted", width |-> 0]
  ELSE [kind |-> "fill", width |-> (level.v * (BarWidth - 4)) \div 1000]

(* variant: the minutes bucket ends at one hour inclusive *)
AgeText_Inclusive(age) ==
  IF age < 60 THEN [kind |-> "Just now", n |-> 0]
  ELSE IF age <= 3600 THEN [kind |-> "m ago", n |-> age \div 60]
  ELSE [kind |-> "h ago", n |-> age \div 3600]

(* lines 266-272: age_text for an age in seconds *)
AgeText(age) ==
  IF age < 60 THEN [kind |-> "Just now", n |-> 0]
  ELSE IF age < 3600 THEN [kind |-> "m ago", n |-> age \div 60]
  ELSE [kind |-> "h ago", n |-> age \div 3600]

NoAge == [kind |-> "none", n |-> 0]
NoDetail == [kind |-> "none", pct |-> 0, at |-> HHMM(0), age |-> NoAge]

(* lines 252-259: the "Last:" line, drawn from the globals of the main     *)
(* loop; a KeyboardInterrupt inside the bare except leaves it out          *)
LastLine(g_level, g_time, sw) ==
  IF g_level # None /\ g_time # None /\ sw # "last"
  THEN [kind |-> "Last", pct |-> IntPart(g_level.v), at |-> HHMM(g_time.v), age |-> NoAge]
  ELSE NoDetail

(* lines 264-275: the "Updated:" line *)
UpdatedLine(upd, cur) ==
  IF upd # None
  THEN [kind |-> "Updated", pct |-> 0, at |-> HHMM(0), age |-> AgeText(cur - upd.v)]
  ELSE NoDetail

(* lines 277-283: the "Retries:" line, from the global counter; a          *)
(* KeyboardInterrupt inside the bare except leaves it out                  *)
RetriesLine(level, status, g_fail, sw) ==
  IF g_fail > 0 /\ level # None /\ sw # "retries"
  THEN [shown |-> TRUE, n |-> g_fail]
  ELSE [shown |-> FALSE, n |-> 0]

(* variant: the symbol is coloured by the value alone *)
StatusColour_ValueOnly(level, status) ==
  IF level = None THEN RED ELSE default_color

(* line 244: status_color *)
StatusColour(level, status) ==
  IF level = None \/ status # "OK" THEN RED ELSE default_color

(* update_inky_display, lines 166-283: what is drawn for the arguments     *)
(* (level, upd, status), the globals of the main loop (g_level, g_time,    *)
(* g_fail), the current time cur and a swallowed interrupt sw              *)
Layout(level, upd, status, g_level, g_time, g_fail, cur, sw) ==
  [ header        |-> MainText(level),
    colour        |-> BatteryColour(level),
    symbol        |-> StatusSymbol(level),
    symbol_colour |-> StatusColour(level, status),
    bar           |-> Bar(level),
    clock         |-> HHMM(cur),
    status_text   |-> IF level = None THEN "Connection Failed" ELSE "Battery Level",
    detail        |-> IF level = None THEN LastLine(g_level, g_time, sw)
                      ELSE UpdatedLine(upd, cur),
    retries       |-> RetriesLine(level, status, g_fail, sw) ]

(* test_display.py, create_test_display, lines 66-181: the same layout     *)
(* with the failure count as a parameter and a fixed "Last: 85%" line      *)
TestLayout(level, upd, status, failures, cur) ==
  [ header        |-> IF level # None THEN [kind |-> "pct", n |-> IntPart(level.v)]
                      ELSE [kind |-> "ERROR", n |-> 0],
    colour        |-> IF level # None
                      THEN (IF level.v < Tenths(20) THEN RED
                            ELSE IF level.v < Tenths(50) THEN YELLOW ELSE BLACK)
                      ELSE RED,
    symbol        |-> IF level # None
                      THEN (IF level.v < Tenths(20) THEN "!"
                            ELSE IF level.v < Tenths(50) THEN "~" ELSE "+")
                      ELSE "X",
    symbol_colour |-> IF level = None \/ status # "OK" THEN RED ELSE BLACK,
    bar           |-> IF level # None
                      THEN [kind |-> "fill", width |-> (level.v * (BarWidth - 4)) \div 1000]
                      ELSE [kind |-> "dotted", width |-> 0],
    clock         |-> HHMM(cur),
    status_text   |-> IF level = None THEN "Connection Failed" ELSE "Battery Level",
    detail        |-> IF level = None
                      THEN (IF upd # None
                            THEN [kind |-> "Last", pct |-> 85, at |-> HHMM(upd.v), age |-> NoAge]
                            ELSE NoDetail)
                      ELSE (IF upd # None
                            THEN [kind |-> "Updated", pct |-> 0, at |-> HHMM(0),
                                  age |-> IF cur - upd.v < 60 THEN [kind |-> "Just now", n |-> 0]
                                          ELSE IF cur - upd.v < 3600
                                               THEN [kind |-> "m ago", n |-> (cur - upd.v) \div 60]
                                               ELSE [kind |-> "h ago", n |-> (cur - upd.v) \div 3600]]
                            ELSE NoDetail),
    retries       |-> IF failures > 0 /\ level # None
                      THEN [shown |-> TRUE, n |-> failures]
                      ELSE [shown |-> FALSE, n |-> 0] ]

(* nothing drawn yet *)
NoLayout == Layout(None, None, "OK", None, None, 0, 0, "none")

(* ---------------- fonts, lines 141-155 --------------------------------- *)
LARGE_BOLD_SIZE == 36
LARGE_FALLBACK_SIZE == 28
MEDIUM_SIZE == 14
DEFAULT_FONT_SIZE == 10

FontFiles == {"DejaVuSans-Bold.ttf", "DejaVuSans.ttf"}

(* variant: the bold face is loaded larger *)
LargeFontSize_Bigger(installed) ==
  IF FontFiles \subseteq installed THEN LARGE_BOLD_SIZE + 12
  ELSE IF "DejaVuSans.ttf" \in installed THEN LARGE_FALLBACK_SIZE
  ELSE DEFAULT_FONT_SIZE

(* the size of large_font: the first try needs both files, the second the  *)
(* regular face only, the last is ImageFont.load_default()                 *)
LargeFontSize(installed) ==
  IF FontFiles \subseteq installed THEN LARGE_BOLD_SIZE
  ELSE IF "DejaVuSans.ttf" \in installed THEN LARGE_FALLBACK_SIZE
  ELSE DEFAULT_FONT_SIZE

(* lines 190-205: the header is drawn with large_font, "ERROR" with        *)
(* medium_font                                                             *)
HeaderSize(level, installed) ==
  IF level # None THEN LargeFontSize(installed)
  ELSE IF "DejaVuSans.ttf" \in installed THEN MEDIUM_SIZE
  ELSE DEFAULT_FONT_SIZE

(* draw.textbbox, lines 193-195: advance widths in thousandths of the font *)
(* size (digits about 0.7, the percent sign about 1.0), height the size    *)
DigitCount(n) == IF n < 10 THEN 1 ELSE IF n < 100 THEN 2 ELSE IF n < 1000 THEN 3 ELSE 4

TextWidth(text, size) ==
  IF text.kind = "pct" THEN ((DigitCount(text.n) * 700 + 1000) * size) \div 1000
  ELSE (5 * 700 * size) \div 1000

TextHeight(text, size) == size

Fits(text, size, maxWidth, maxHeight) ==
  TextWidth(text, size) <= maxWidth /\ TextHeight(text, size) <= maxHeight

(* ---------------- main loop -------------------------------------------- *)
(* line 341 *)
ExtendedWait == Min(UPDATE_INTERVAL * 2, MAX_EXTENDED_WAIT)

(* variant: the extended wait starts one failure later *)
ManyFailures_Strict(n) == n > SEVERE_FAILURES

(* line 340 *)
ManyFailures(n) == n >= SEVERE_FAILURES

Tick(t, d) == Min(t + d, MaxTime)

VARIABLES
  pc,                              \* position of the single thread
  last_successful_battery_level,   \* line 301
  last_successful_update_time,     \* line 302
  consecutive_failures,            \* line 303
  battery_status,                  \* line 309
  display_success,                 \* line 318
  connection_status,               \* line 326
  attempt,                         \* get_battery_status_with_retry: loop variable
  battery_level,                   \* get_battery_status_with_retry: line 53
  now,                             \* the clock, seconds
  response,                        \* history: the answer to the last request
  fetch_exc,                       \* history: exception that left get_battery_status
  results,                         \* history: values returned by the attempts of this call
  sleeps,                          \* history: backoff sleeps of this call
  cycle_sleep,                     \* history: seconds slept by the main loop in this cycle
  branch,                          \* history: how the try body of this cycle ended
  failed_cycles,                   \* history: cycles since the last fetch success
  increments,                      \* history: increments of the counter in this cycle
  render_exc,                      \* history: exception raised by this cycle's rendering
  render_args,                     \* history: arguments of this cycle's render call
  rendered,                        \* history: what this cycle's render call draws
  test_rendered,                   \* what create_test_display draws (test_display.py)
  header_size,                     \* history: font size of the header drawn
  renders,                         \* history: render calls of this cycle
  swallowed,                       \* history: interrupt caught by a bare except of the rendering
  resets,                          \* history: resets of the counter in this cycle
  fonts,                           \* the font files installed
  fetched                          \* history: a fetch has returned a value since the start

vars == <<pc, last_successful_battery_level, last_successful_update_time,
          consecutive_failures, battery_status, display_success, connection_status,
          attempt, battery_level, now, response, fetch_exc, results, sleeps,
          cycle_sleep, branch, failed_cycles, increments, render_exc, render_args,
          rendered, test_rendered, header_size, renders, swallowed, resets, fonts,
          fetched>>

display_state == <<last_successful_battery_level, last_successful_update_time,
                   consecutive_failures>>
main_locals == <<battery_status, display_success, connection_status>>
retry_locals == <<attempt, battery_level>>
retry_history == <<response, fetch_exc, results, sleeps>>
cycle_history == <<cycle_sleep, branch, failed_cycles, increments>>

render_history == <<render_args, rendered, test_rendered, header_size, renders,
                    swallowed, fonts>>

NoArgs == [level |-> None, upd |-> None, status |-> "none"]

NoResponse == [net |-> "none", status |-> "ok", body |-> "object", state |-> Missing]

(* lines 296-303 *)
Init ==
  /\ pc = "loop_head"
  /\ last_successful_battery_level = None
  /\ last_successful_update_time = None
  /\ consecutive_failures = 0
  /\ battery_status = None
  /\ display_success = Unset
  /\ connection_status = Unset
  /\ attempt = 0
  /\ battery_level = None
  /\ now = 0
  /\ response = NoResponse
  /\ fetch_exc = "none"
  /\ results = <<>>
  /\ sleeps = <<>>
  /\ cycle_sleep = 0
  /\ branch = "none"
  /\ failed_cycles = 0
  /\ increments = 0
  /\ render_exc = "none"
  /\ render_args = NoArgs
  /\ rendered = NoLayout
  /\ test_rendered = NoLayout
  /\ header_size = 0
  /\ renders = 0
  /\ swallowed = "none"
  /\ resets = 0
  /\ fonts = FontFiles
  /\ fetched = FALSE

(* variant: the exception is counted but ends the loop *)
HandleException_Exits ==
  /\ consecutive_failures' = consecutive_failures + 1
  /\ increments' = increments + 1
  /\ branch' = "error"
  /\ pc' = "exited"

(* lines 348-357: the handler of an Exception that escapes the try body    *)
HandleException ==
  /\ consecutive_failures' = consecutive_failures + 1
  /\ increments' = increments + 1
  /\ branch' = "error"
  /\ pc' = "interval_sleep"

(* lines 305-306: while True / try *)
LoopHead ==
  /\ pc = "loop_head"
  /\ pc' = "cycle_start"
  /\ cycle_sleep' = 0
  /\ branch' = "none"
  /\ increments' = 0
  /\ render_exc' = "none"
  /\ render_args' = NoArgs
  /\ rendered' = NoLayout
  /\ header_size' = 0
  /\ renders' = 0
  /\ swallowed' = "none"
  /\ resets' = 0
  /\ UNCHANGED <<display_state, main_locals, retry_locals, now, retry_history,
                 failed_cycles, test_rendered, fonts>>
  /\ UNCHANGED fetched

(* lines 307-309 and 50: the cycle's banner, entry of the retry function   *)
CycleStart ==
  /\ pc = "cycle_start"
  /\ pc' = "retry_attempt"
  /\ attempt' = 0
  /\ battery_level' = None
  /\ response' = NoResponse
  /\ fetch_exc' = "none"
  /\ results' = <<>>
  /\ sleeps' = <<>>
  /\ UNCHANGED <<display_state, main_locals, now, cycle_history>>
  /\ UNCHANGED <<render_exc, render_history, resets>>
  /\ UNCHANGED fetched

(* lines 51-53: one call of get_battery_status *)
RetryAttempt ==
  /\ pc = "retry_attempt"
  /\ \E r \in Responses :
       LET f == get_battery_status(r)
       IN /\ IsSuccess(f.val) \/ consecutive_failures < MaxFailures
          /\ response' = r
          /\ fetch_exc' = f.exc
          /\ results' = Append(results, f.val)
          /\ fetched' = (fetched \/ f.val # None)
          /\ IF f.exc = "none"
             THEN /\ battery_level' = f.val
                  /\ pc' = "retry_check"
                  /\ UNCHANGED <<display_state, cycle_history>>
             ELSE /\ HandleException
                  /\ UNCHANGED <<battery_level, last_successful_battery_level,
                                 last_successful_update_time, cycle_sleep, failed_cycles>>
  /\ UNCHANGED <<main_locals, attempt, now, sleeps>>
  /\ UNCHANGED <<render_exc, render_history, resets>>

(* lines 54-55 and 309: first success, return it *)
RetryReturn ==
  /\ pc = "retry_check"
  /\ IsSuccess(battery_level)
  /\ battery_status' = battery_level
  /\ pc' = "returned"
  /\ UNCHANGED <<display_state, display_success, connection_status, retry_locals, now,
                 retry_history, cycle_history>>
  /\ UNCHANGED <<render_exc, render_history, resets>>
  /\ UNCHANGED fetched

(* lines 58-66: wait before the next attempt *)
RetryBackoff ==
  /\ pc = "retry_check"
  /\ ~IsSuccess(battery_level)
  /\ BackoffDue(attempt)
  /\ \E j \in JitterPct : sleeps' = Append(sleeps, TotalDelay(attempt, j))
  /\ pc' = "retry_next"
  /\ UNCHANGED <<display_state, main_locals, retry_locals, now, response, fetch_exc,
                 results, cycle_history>>
  /\ UNCHANGED <<render_exc, render_history, resets>>
  /\ UNCHANGED fetched

(* line 58, condition false: no wait after the last attempt *)
RetrySkipBackoff ==
  /\ pc = "retry_check"
  /\ ~IsSuccess(battery_level)
  /\ ~BackoffDue(attempt)
  /\ pc' = "retry_next"
  /\ UNCHANGED <<display_state, main_locals, retry_locals, now, retry_history,
                 cycle_history>>
  /\ UNCHANGED <<render_exc, render_history, resets>>
  /\ UNCHANGED fetched

(* line 50: next iteration of the for loop, or fall out of it *)
RetryNext ==
  /\ pc = "retry_next"
  /\ IF HasNextAttempt(attempt)
     THEN attempt' = attempt + 1 /\ pc' = "retry_attempt"
     ELSE attempt' = attempt /\ pc' = "retry_exhausted"
  /\ UNCHANGED <<display_state, main_locals, battery_level, now, retry_history,
                 cycle_history>>
  /\ UNCHANGED <<render_exc, render_history, resets>>
  /\ UNCHANGED fetched

(* lines 68-69 and 309: all attempts failed, return None *)
RetryExhausted ==
  /\ pc = "retry_exhausted"
  /\ battery_status' = None
  /\ pc' = "returned"
  /\ UNCHANGED <<display_state, display_success, connection_status, retry_locals, now,
                 retry_history, cycle_history>>
  /\ UNCHANGED <<render_exc, render_history, resets>>
  /\ UNCHANGED fetched

(* the locals of get_battery_status_with_retry are gone after the return *)
DropRetryFrame ==
  /\ attempt' = 0
  /\ battery_level' = None
  /\ response' = NoResponse
  /\ fetch_exc' = "none"
  /\ results' = <<>>
  /\ sleeps' = <<>>

(* variant: a success stores the value without its timestamp *)
SuccessUpdate_NoTimestamp ==
  /\ pc = "returned"
  /\ battery_status # None
  /\ last_successful_battery_level' = battery_status
  /\ consecutive_failures' = 0
  /\ failed_cycles' = 0
  /\ branch' = "success"
  /\ pc' = "render_success"
  /\ DropRetryFrame
  /\ UNCHANGED <<main_locals, now, cycle_sleep, increments,
                 last_successful_update_time>>
  /\ resets' = resets + 1
  /\ UNCHANGED <<render_exc, render_history>>
  /\ UNCHANGED fetched

(* lines 311-315 *)
SuccessUpdate ==
  /\ pc = "returned"
  /\ battery_status # None
  /\ last_successful_battery_level' = battery_status
  /\ last_successful_update_time' = Some(now)
  /\ consecutive_failures' = 0
  /\ failed_cycles' = 0
  /\ branch' = "success"
  /\ pc' = "render_success"
  /\ DropRetryFrame
  /\ UNCHANGED <<main_locals, now, cycle_sleep, increments>>
  /\ resets' = resets + 1
  /\ UNCHANGED <<render_exc, render_history>>
  /\ UNCHANGED fetched

(* lines 114 and 121-287: one call of update_inky_display with the         *)
(* arguments given, reading the globals of the main loop                   *)
RenderCall(level, upd, status) ==
  /\ render_args' = [level |-> level, upd |-> upd, status |-> status]
  /\ rendered' = Layout(level, upd, status, last_successful_battery_level,
                        last_successful_update_time, consecutive_failures, now, swallowed)
  /\ header_size' = HeaderSize(level, fonts)
  /\ renders' = renders + 1
  /\ UNCHANGED <<test_rendered, swallowed, fonts, resets>>

(* line 318 *)
RenderSuccess ==
  /\ pc = "render_success"
  /\ RenderCall(battery_status, last_successful_update_time, "OK")
  /\ \E fault \in RenderFaults :
       LET u == update_inky_display_safe(fault)
       IN /\ render_exc' = update_inky_display(fault)
          /\ IF u.exc = "none"
             THEN /\ display_success' = u.ret
                  /\ pc' = "success_report"
                  /\ UNCHANGED <<display_state, cycle_history>>
             ELSE /\ HandleException
                  /\ UNCHANGED <<display_success, last_successful_battery_level,
                                 last_successful_update_time, cycle_sleep, failed_cycles>>
  /\ UNCHANGED <<battery_status, connection_status, retry_locals, now, retry_history>>
  /\ UNCHANGED fetched

(* lines 319-322 *)
SuccessReport ==
  /\ pc = "success_report"
  /\ pc' = "interval_sleep"
  /\ UNCHANGED <<display_state, main_locals, retry_locals, now, retry_history,
                 cycle_history>>
  /\ UNCHANGED <<render_exc, render_history, resets>>
  /\ UNCHANGED fetched

(* variant: a failed cycle forgets the last good reading *)
FailureUpdate_ClearsLastGood ==
  /\ pc = "returned"
  /\ battery_status = None
  /\ consecutive_failures' = consecutive_failures + 1
  /\ increments' = increments + 1
  /\ connection_status' = "FAILED"
  /\ branch' = "failure"
  /\ pc' = "failure_report"
  /\ DropRetryFrame
  /\ last_successful_battery_level' = None
  /\ last_successful_update_time' = None
  /\ UNCHANGED <<battery_status, display_success, now, cycle_sleep, failed_cycles,
                 render_exc, render_history, resets>>
  /\ UNCHANGED fetched

(* lines 323-326 *)
FailureUpdate ==
  /\ pc = "returned"
  /\ battery_status = None
  /\ consecutive_failures' = consecutive_failures + 1
  /\ increments' = increments + 1
  /\ connection_status' = "FAILED"
  /\ branch' = "failure"
  /\ pc' = "failure_report"
  /\ DropRetryFrame
  /\ UNCHANGED <<last_successful_battery_level, last_successful_update_time,
                 battery_status, display_success, now, cycle_sleep, failed_cycles>>
  /\ UNCHANGED <<render_exc, render_history, resets>>
  /\ UNCHANGED fetched

(* lines 327-331 / 336 *)
FailureReport ==
  /\ pc = "failure_report"
  /\ pc' = "render_failure"
  /\ UNCHANGED <<display_state, main_locals, retry_locals, now, retry_history,
                 cycle_history>>
  /\ UNCHANGED <<render_exc, render_history, resets>>
  /\ UNCHANGED fetched

(* variant: a failed cycle always shows the error screen *)
RenderFailure_AlwaysError ==
  /\ pc = "render_failure"
  /\ RenderCall(None, None, connection_status)
  /\ \E fault \in RenderFaults :
       LET u == update_inky_display_safe(fault)
       IN /\ render_exc' = update_inky_display(fault)
          /\ IF u.exc = "none"
             THEN /\ pc' = "check_extended"
                  /\ UNCHANGED <<display_state, cycle_history>>
             ELSE /\ HandleException
                  /\ UNCHANGED <<last_successful_battery_level,
                                 last_successful_update_time, cycle_sleep, failed_cycles>>
  /\ UNCHANGED <<main_locals, retry_locals, now, retry_history>>
  /\ UNCHANGED fetched

(* lines 330-337: the last known value if there is one, else None; the     *)
(* result of the call is not used                                          *)
RenderFailure ==
  /\ pc = "render_failure"
  /\ IF last_successful_battery_level # None
     THEN RenderCall(last_successful_battery_level, last_successful_update_time,
                     connection_status)
     ELSE RenderCall(None, None, connection_status)
  /\ \E fault \in RenderFaults :
       LET u == update_inky_display_safe(fault)
       IN /\ render_exc' = update_inky_display(fault)
          /\ IF u.exc = "none"
             THEN /\ pc' = "check_extended"
                  /\ UNCHANGED <<display_state, cycle_history>>
             ELSE /\ HandleException
                  /\ UNCHANGED <<last_successful_battery_level,
                                 last_successful_update_time, cycle_sleep, failed_cycles>>
  /\ UNCHANGED <<main_locals, retry_locals, now, retry_history>>
  /\ UNCHANGED fetched

(* variant: the extended wait starts the count again *)
ExtendedSleep_ResetsCounter ==
  /\ pc = "check_extended"
  /\ ManyFailures(consecutive_failures)
  /\ cycle_sleep' = cycle_sleep + (ExtendedWait - UPDATE_INTERVAL)
  /\ now' = Tick(now, ExtendedWait - UPDATE_INTERVAL)
  /\ pc' = "interval_sleep"
  /\ consecutive_failures' = 0
  /\ UNCHANGED <<last_successful_battery_level, last_successful_update_time,
                 main_locals, retry_locals, retry_history, branch,
                 failed_cycles, increments, render_exc, render_history, resets>>
  /\ UNCHANGED fetched

(* lines 340-343 *)
ExtendedSleep ==
  /\ pc = "check_extended"
  /\ ManyFailures(consecutive_failures)
  /\ cycle_sleep' = cycle_sleep + (ExtendedWait - UPDATE_INTERVAL)
  /\ now' = Tick(now, ExtendedWait - UPDATE_INTERVAL)
  /\ pc' = "interval_sleep"
  /\ UNCHANGED <<display_state, main_locals, retry_locals, retry_history, branch,
                 failed_cycles, increments>>
  /\ UNCHANGED <<render_exc, render_history, resets>>
  /\ UNCHANGED fetched

(* line 340, condition false *)
NoExtendedSleep ==
  /\ pc = "check_extended"
  /\ ~ManyFailures(consecutive_failures)
  /\ pc' = "interval_sleep"
  /\ UNCHANGED <<display_state, main_locals, retry_locals, now, retry_history,
                 cycle_history>>
  /\ UNCHANGED <<render_exc, render_history, resets>>
  /\ UNCHANGED fetched

(* The statements of the try body outside any inner handler, from which an *)
(* Exception escapes to line 348: the prints of lines 307, 51, 65, 68,     *)
(* 320/322, 327-336, 342 and the sleeps of lines 66 and 343.               *)
CanRaise ==
  \/ pc \in {"cycle_start", "retry_attempt", "retry_exhausted", "success_report",
             "failure_report"}
  \/ pc = "retry_check" /\ ~IsSuccess(battery_level) /\ BackoffDue(attempt)
  \/ pc = "check_extended" /\ ManyFailures(consecutive_failures)

(* lines 348-357: an unexpected error in the try body *)
UnexpectedError ==
  /\ CanRaise
  /\ consecutive_failures < MaxFailures
  /\ HandleException
  /\ DropRetryFrame
  /\ UNCHANGED <<last_successful_battery_level, last_successful_update_time,
                 main_locals, now, cycle_sleep, failed_cycles>>
  /\ UNCHANGED <<render_exc, render_history, resets>>
  /\ UNCHANGED fetched

(* variant: the next cycle starts without the interval sleep *)
IntervalSleep_Skipped ==
  /\ pc = "interval_sleep"
  /\ failed_cycles' = IF branch = "success" THEN failed_cycles ELSE failed_cycles + 1
  /\ pc' = "loop_head"
  /\ UNCHANGED <<display_state, main_locals, retry_locals, retry_history, branch,
                 increments, cycle_sleep, now>>
  /\ UNCHANGED <<render_exc, render_history, resets>>
  /\ UNCHANGED fetched

(* lines 359-360 *)
IntervalSleep ==
  /\ pc = "interval_sleep"
  /\ cycle_sleep' = cycle_sleep + UPDATE_INTERVAL
  /\ now' = Tick(now, UPDATE_INTERVAL)
  /\ failed_cycles' = IF branch = "success" THEN failed_cycles ELSE failed_cycles + 1
  /\ pc' = "loop_head"
  /\ UNCHANGED <<display_state, main_locals, retry_locals, retry_history, branch,
                 increments>>
  /\ UNCHANGED <<render_exc, render_history, resets>>
  /\ UNCHANGED fetched

TryPcs == {"cycle_start", "retry_attempt", "retry_check", "retry_next",
           "retry_exhausted", "returned", "render_success", "success_report",
           "failure_report", "render_failure", "check_extended"}

(* lines 345-347: KeyboardInterrupt inside the try body *)
InterruptInTry ==
  /\ pc \in TryPcs
  /\ pc' = "stopped"
  /\ DropRetryFrame
  /\ UNCHANGED <<display_state, main_locals, now, cycle_history>>
  /\ UNCHANGED <<render_exc, render_history, resets>>
  /\ UNCHANGED fetched

(* lines 305, 359-360: KeyboardInterrupt outside the try statement *)
InterruptOutsideTry ==
  /\ pc \in {"loop_head", "interval_sleep"}
  /\ pc' = "crashed"
  /\ UNCHANGED <<display_state, main_locals, retry_locals, now, retry_history,
                 cycle_history>>
  /\ UNCHANGED <<render_exc, render_history, resets>>
  /\ UNCHANGED fetched

(* lines 253-259 and 278-283: a KeyboardInterrupt that arrives inside one  *)
(* of the bare except blocks of update_inky_display is dropped there; the  *)
(* first block is entered only when the value drawn is None                *)
InterruptSwallowed ==
  /\ pc \in {"render_success", "render_failure"}
  /\ swallowed = "none"
  /\ \E region \in {"last", "retries"} :
       /\ region = "last" => pc = "render_failure" /\ last_successful_battery_level = None
       /\ swallowed' = region
  /\ UNCHANGED <<pc, display_state, main_locals, retry_locals, now, retry_history,
                 cycle_history, render_exc, render_args, rendered, test_rendered,
                 header_size, renders, resets, fonts>>
  /\ UNCHANGED fetched

Step ==
  \/ LoopHead
  \/ CycleStart
  \/ RetryAttempt
  \/ RetryReturn
  \/ RetryBackoff
  \/ RetrySkipBackoff
  \/ RetryNext
  \/ RetryExhausted
  \/ SuccessUpdate
  \/ RenderSuccess
  \/ SuccessReport
  \/ FailureUpdate
  \/ FailureReport
  \/ RenderFailure
  \/ ExtendedSleep
  \/ NoExtendedSleep
  \/ UnexpectedError
  \/ IntervalSleep

Next ==
  \/ Step
  \/ InterruptInTry
  \/ InterruptOutsideTry
  \/ InterruptSwallowed

Spec == Init /\ [][Next]_vars

(* the loop is the only thread: it keeps running unless interrupted *)
LiveSpec == Init /\ [][Next]_vars /\ WF_vars(Step)

(* ---------------- the two renderers on chosen inputs ------------------- *)
LayoutNow == 7800

LayoutLevels == {None} \cup {Some(v) : v \in {0, 199, 200, 499, 500, 850, 1000}}

LayoutAges == {0, 59, 60, 119, 3599, 3600, 7199, 7200}

LayoutTimes == {None} \cup {Some(LayoutNow - a) : a \in LayoutAges}

(* the arguments, the globals, the clock and the fonts of one render call *)
LayoutInit ==
  /\ pc = "layout_input"
  /\ render_args \in [level : LayoutLevels, upd : LayoutTimes, status : {"OK", "FAILED"}]
  /\ \E g \in {None, Some(850)} :
       /\ last_successful_battery_level = g
       /\ last_successful_update_time = IF g = None THEN None ELSE Some(LayoutNow - 600)
  /\ consecutive_failures \in {0, 2}
  /\ now = LayoutNow
  /\ fonts \in SUBSET FontFiles
  /\ battery_status = None
  /\ display_success = Unset
  /\ connection_status = Unset
  /\ attempt = 0
  /\ battery_level = None
  /\ response = NoResponse
  /\ fetch_exc = "none"
  /\ results = <<>>
  /\ sleeps = <<>>
  /\ cycle_sleep = 0
  /\ branch = "none"
  /\ failed_cycles = 0
  /\ increments = 0
  /\ render_exc = "none"
  /\ rendered = NoLayout
  /\ test_rendered = NoLayout
  /\ header_size = 0
  /\ renders = 0
  /\ swallowed = "none"
  /\ resets = 0
  /\ fetched = FALSE

(* update_inky_display and create_test_display on the same arguments *)
ApplyLayout ==
  /\ pc = "layout_input"
  /\ pc' = "layout_done"
  /\ rendered' = Layout(render_args.level, render_args.upd, render_args.status,
                        last_successful_battery_level, last_successful_update_time,
                        consecutive_failures, now, swallowed)
  /\ test_rendered' = TestLayout(render_args.level, render_args.upd, render_args.status,
                                 consecutive_failures, now)
  /\ header_size' = HeaderSize(render_args.level, fonts)
  /\ renders' = renders + 1
  /\ UNCHANGED <<display_state, main_locals, retry_locals, now, retry_history,
                 cycle_history, render_exc, render_args, swallowed, resets, fonts>>
  /\ UNCHANGED fetched

LayoutNext == ApplyLayout

LayoutSpec == LayoutInit /\ [][LayoutNext]_vars

(* ======================= properties ===================================== *)

AllNone(seq, n) == \A i \in 1..n : seq[i] = None

RetryPcs == {"retry_attempt", "retry_check", "retry_next", "retry_exhausted"}

(* C1: at every cycle boundary the failure counter equals the number of    *)
(* consecutive cycles that ended without a fetch success since the counter *)
(* was last 0, and a cycle whose fetch succeeded has set it to 0.          *)
C1_CounterEqualsFailedCycles ==
  /\ pc = "loop_head" => consecutive_failures = failed_cycles
  /\ branch = "success" => consecutive_failures = 0

LastGoodStep ==
  /\ <<last_successful_battery_level, last_successful_update_time>>'
        # <<last_successful_battery_level, last_successful_update_time>>
      => /\ pc = "returned" /\ battery_status # None
         /\ last_successful_battery_level' = battery_status
         /\ last_successful_update_time' = Some(now)
  /\ pc = "returned" /\ battery_status # None /\ pc' = "render_success"
      => /\ last_successful_battery_level' = battery_status
         /\ last_successful_update_time' = Some(now)
  /\ pc \in RetryPcs /\ pc' \in RetryPcs \cup {"returned"}
      => UNCHANGED display_state

(* C2: the last known good reading changes only in the success branch of a *)
(* cycle, to the fetched value and the current time; the retry function    *)
(* changes neither it nor the failure counter.                             *)
C2_LastGoodFrame == [][LastGoodStep]_vars

C2_Witness ==
  /\ pc = "interval_sleep"
  /\ branch = "failure"
  /\ last_successful_battery_level = Some(850)
  /\ last_successful_update_time # None
  /\ last_successful_update_time.v < now

(* C3: a call of the retry function makes between 1 and MAX_RETRIES fetch  *)
(* attempts, and on return the attempts number one more than the sleeps.   *)
C3_AttemptsAndSleeps ==
  /\ Len(results) <= MAX_RETRIES
  /\ pc = "retry_attempt" => Len(sleeps) = Len(results)
  /\ pc = "returned" => /\ Len(results) >= 1
                        /\ Len(results) = 1 + Len(sleeps)

C3_Witness ==
  /\ pc = "returned"
  /\ Len(results) = MAX_RETRIES
  /\ Len(sleeps) = MAX_RETRIES - 1
  /\ battery_status = None

(* C4: the retry function returns a value iff some attempt succeeded; the  *)
(* value is that of the first success, which is the last attempt made;     *)
(* it returns None only after MAX_RETRIES failed attempts.                 *)
C4_FirstSuccessReturned ==
  /\ AllNone(results, Len(results) - 1)
  /\ pc \in {"retry_next", "retry_exhausted"} => AllNone(results, Len(results))
  /\ pc = "returned" =>
       /\ battery_status # None <=> \E i \in 1..Len(results) : results[i] # None
       /\ battery_status = results[Len(results)]
       /\ battery_status = None => Len(results) = MAX_RETRIES

C4_Witness ==
  /\ pc = "returned"
  /\ Len(results) = 2
  /\ results[1] = None
  /\ battery_status = Some(0)

(* C5: the i-th backoff sleep of a call lasts between 1.1 and 1.5 times    *)
(* its base delay, the base delays being 5 s and then 10 s; the base       *)
(* delay never decreases and never exceeds MAX_RETRY_DELAY.                *)
C5_BackoffDurations ==
  /\ Len(sleeps) <= 2
  /\ \A i \in 1..Len(sleeps) :
       LET base == IF i = 1 THEN 5 ELSE 10
       IN /\ 110 * base <= sleeps[i]
          /\ sleeps[i] <= 150 * base
  /\ \A a \in 0..(MAX_RETRIES - 2) : Delay(a) <= Delay(a + 1) /\ Delay(a) <= MAX_RETRY_DELAY

C5_Witness ==
  /\ Len(sleeps) = 2
  /\ sleeps[1] = 750
  /\ sleeps[2] = 1100

(* C6 as stated: a failed cycle that leaves the counter at 5 or more       *)
(* sleeps min(2*UPDATE_INTERVAL, 1800) + UPDATE_INTERVAL in all, every     *)
(* cycle with a counter below 5 sleeps UPDATE_INTERVAL.                    *)
C6_ExtendedWaitAdditive ==
  pc = "loop_head" /\ branch # "none" =>
    /\ branch = "failure" /\ consecutive_failures >= 5
         => cycle_sleep = Min(2 * UPDATE_INTERVAL, 1800) + UPDATE_INTERVAL
    /\ consecutive_failures < 5 => cycle_sleep = UPDATE_INTERVAL

(* C6 amended: a cycle whose failure branch runs to its end with the       *)
(* counter at 5 or more sleeps min(2*UPDATE_INTERVAL, 1800) in all, the    *)
(* extended wait being shortened by the interval sleep that follows it;    *)
(* every other cycle sleeps exactly UPDATE_INTERVAL.                       *)
C6_ExtendedWaitTotal ==
  pc = "loop_head" /\ branch # "none" =>
    cycle_sleep = IF branch = "failure" /\ consecutive_failures >= 5
                  THEN Min(2 * UPDATE_INTERVAL, 1800)
                  ELSE UPDATE_INTERVAL

C6_Witness ==
  /\ pc = "loop_head"
  /\ branch = "failure"
  /\ consecutive_failures >= 5
  /\ cycle_sleep = 600

HandlerStep ==
  branch' = "error" /\ branch # "error"
    => /\ consecutive_failures' = consecutive_failures + 1
       /\ pc' = "interval_sleep"
       /\ cycle_sleep' = cycle_sleep

IntervalSleepStep ==
  pc = "interval_sleep" => pc' \in {"loop_head", "crashed"}

RenderRaisedStep ==
  pc \in {"render_success", "render_failure"} /\ render_exc' # "none"
    => /\ UNCHANGED display_state
       /\ increments' = increments
       /\ branch' = branch
       /\ (pc = "render_success" => pc' = "success_report" /\ display_success' = "False")
       /\ (pc = "render_failure" => pc' = "check_extended")

AfterRenderStep ==
  pc \in {"success_report", "check_extended"} => pc' \in {"interval_sleep", "stopped"}

RaisingResponse(r) ==
  \/ r.net \in {"Timeout", "ConnectionError", "RequestException"}
  \/ r.net = "response" /\ r.status = "bad"
  \/ r.net = "response" /\ r.body \in {"not_json", "not_object"}
  \/ r.net = "response" /\ r.state.kind = "null"
  \/ r.net = "response" /\ r.state.kind = "str" /\ r.state.s \in {<<"o", "f", "f">>, <<>>}

(* C9: no exception leaves get_battery_status; every answer that makes it  *)
(* raise internally yields None, so the retry function goes on to its next *)
(* attempt and the main loop sees such a failure only as None.             *)
C9_FetchNeverRaises ==
  /\ fetch_exc = "none"
  /\ pc = "retry_check" /\ RaisingResponse(response) => battery_level = None
  /\ pc = "returned" /\ RaisingResponse(response) => battery_status = None

C9_Witness ==
  /\ pc = "returned"
  /\ response.net = "response"
  /\ response.state = Null
  /\ Len(results) = MAX_RETRIES
  /\ battery_status = None

(* C10: an answer with HTTP status ok and a JSON object whose 'state' is   *)
(* missing or not a number yields None from get_battery_status.            *)
C10_MissingStateIsFailure ==
  pc = "retry_check" /\ response.net = "response" /\ response.status = "ok"
    /\ response.body = "object"
    /\ (response.state.kind = "missing"
          \/ (response.state.kind = "str" /\ response.state.s \in {<<"o", "f", "f">>, <<>>}))
  => battery_level = None

(* C11: after the render of a failed cycle the footer reads "Connection   *)
(* Failed", with the line "Last: pct% at HH:MM" of the last good reading   *)
(* when there is one and without it when there is none.                    *)
C11_ConnectionFailedFooter ==
  pc = "check_extended" /\ render_exc = "none" /\ swallowed = "none" =>
    /\ rendered.status_text = "Connection Failed"
    /\ last_successful_battery_level # None =>
         /\ rendered.detail.kind = "Last"
         /\ rendered.detail.pct = IntPart(last_successful_battery_level.v)
         /\ rendered.detail.at = HHMM(last_successful_update_time.v)
    /\ last_successful_battery_level = None => rendered.detail.kind = "none"

(* C12: the line "Retries: n" is drawn only in a cycle whose fetch         *)
(* succeeded, with n > 0, and never in a cycle whose fetch failed.         *)
C12_RetriesOnlyOnSuccess ==
  /\ rendered.retries.shown => branch = "success" /\ rendered.retries.n > 0
  /\ branch = "failure" => ~rendered.retries.shown

(* C13: in a failed cycle with a last good reading the renderer is called  *)
(* with that value, its timestamp and status FAILED: the header shows the  *)
(* last good percentage and the status symbol is drawn in the alert colour.*)
C13_StaleFallback ==
  /\ pc \in {"check_extended", "interval_sleep"}
  /\ branch = "failure"
  /\ last_successful_battery_level # None
  =>
    /\ consecutive_failures >= 1
    /\ renders = 1
    /\ render_args.level = last_successful_battery_level
    /\ render_args.upd = last_successful_update_time
    /\ render_args.status = "FAILED"
    /\ rendered.header.kind = "pct"
    /\ rendered.header.n = IntPart(last_successful_battery_level.v)
    /\ rendered.symbol_colour = RED

C13_Witness ==
  /\ pc = "check_extended"
  /\ last_successful_battery_level = Some(199)
  /\ last_successful_update_time.v < now
  /\ render_args.status = "FAILED"
  /\ rendered.header.n = 19
  /\ render_exc = "none"

(* C14: a present value below 20 is drawn in the alert colour with "!",    *)
(* from 20 to below 50 in the caution colour with "~", from 50 on in the   *)
(* default colour with "+"; an absent value in the alert colour with "X"   *)
(* and the header ERROR; the test renderer selects the same.               *)
C14_ColourPartition ==
  pc = "layout_done" =>
    LET lv == render_args.level
    IN /\ lv # None =>
            /\ (rendered.colour = RED /\ rendered.symbol = "!") <=> lv.v < 200
            /\ (rendered.colour = YELLOW /\ rendered.symbol = "~")
                 <=> (200 <= lv.v /\ lv.v < 500)
            /\ (rendered.colour = BLACK /\ rendered.symbol = "+") <=> lv.v >= 500
            /\ rendered.header.kind = "pct"
       /\ lv = None =>
            /\ rendered.colour = RED
            /\ rendered.symbol = "X"
            /\ rendered.header.kind = "ERROR"
       /\ test_rendered.colour = rendered.colour
       /\ test_rendered.symbol = rendered.symbol
       /\ test_rendered.header = rendered.header

C14_Witness ==
  /\ pc = "layout_done"
  /\ render_args.level = Some(499)
  /\ rendered.colour = YELLOW
  /\ rendered.symbol = "~"
  /\ test_rendered.symbol = "~"

InterruptHandledStep ==
  pc \in TryPcs \cup {"interval_sleep"} =>
    /\ pc' # "crashed"
    /\ swallowed' = swallowed \/ swallowed' = "none"

(* C15: an interrupt that arrives while the loop runs, in the try body or  *)
(* in the interval sleep, ends the loop through its KeyboardInterrupt      *)
(* handler: it is neither left unhandled nor swallowed.                    *)
C15_InterruptGraceful == [][InterruptHandledStep]_vars

CycleOrderStep ==
  /\ renders' > renders => cycle_sleep = 0 /\ branch \in {"success", "failure"}
  /\ cycle_sleep' > cycle_sleep => pc \in {"check_extended", "interval_sleep"}
  /\ pc' = "retry_attempt" => cycle_sleep' = 0 /\ renders' = 0 /\ branch' = "none"

(* C16: within a cycle the fetch comes before the state update, the state  *)
(* update before the single render, the render before the sleeps, and the  *)
(* next cycle starts only after the interval sleep; the render sees the    *)
(* counter and reading as updated in this cycle.                           *)
C16_CycleOrder ==
  /\ [](renders <= 1)
  /\ [](pc \in RetryPcs \cup {"cycle_start", "returned"}
          => renders = 0 /\ branch = "none" /\ cycle_sleep = 0
             /\ increments = 0 /\ resets = 0)
  /\ [](pc = "success_report"
          => /\ consecutive_failures = 0 /\ resets = 1
             /\ render_args.level = last_successful_battery_level
             /\ render_args.upd = Some(now)
             /\ ~rendered.retries.shown)
  /\ [](pc = "check_extended" /\ last_successful_battery_level # None
          /\ swallowed = "none"
          => rendered.retries = [shown |-> TRUE, n |-> consecutive_failures])
  /\ [](pc = "loop_head" /\ branch # "none" => cycle_sleep >= UPDATE_INTERVAL)
  /\ [][CycleOrderStep]_vars

C16_Witness ==
  /\ pc = "loop_head"
  /\ branch = "failure"
  /\ renders = 1
  /\ rendered.retries.n = 2
  /\ cycle_sleep = UPDATE_INTERVAL

C18_OneTransitionPerCycle ==
  /\ increments + resets <= 1
  /\ pc = "interval_sleep" => increments + resets = 1

CounterStep ==
  /\ consecutive_failures' < consecutive_failures
       => pc = "returned" /\ battery_status # None /\ consecutive_failures' = 0
  /\ pc = "check_extended" /\ cycle_sleep' > cycle_sleep
       => consecutive_failures' = consecutive_failures

(* C19: the extended wait leaves the counter alone and only a successful   *)
(* fetch lowers it, to 0; so with the counter at 5 or more every failed    *)
(* cycle takes the extended wait, and a cycle whose fetch succeeded sleeps *)
(* the normal interval.                                                    *)
C19_ExtendedWaitKeepsCounter ==
  /\ [][CounterStep]_vars
  /\ [](pc = "interval_sleep" /\ branch = "failure" /\ consecutive_failures >= 5
          => cycle_sleep = 300)
  /\ [](pc = "loop_head" /\ branch = "failure" /\ consecutive_failures >= 5
          => cycle_sleep = 600)
  /\ [](pc = "loop_head" /\ branch = "success"
          => cycle_sleep = 300 /\ consecutive_failures = 0)

C19_Witness ==
  /\ pc = "loop_head"
  /\ branch = "failure"
  /\ consecutive_failures = 6
  /\ increments = 1
  /\ cycle_sleep = 600

(* C20: a value drawn with its timestamp has the footer "Battery Level"    *)
(* and the age "Just now" below 60 s, whole minutes below 3600 s, whole    *)
(* hours from 3600 s on; the test renderer draws the same age.             *)
C20_AgeBuckets ==
  pc = "layout_done" /\ render_args.level # None /\ render_args.upd # None =>
    LET age == now - render_args.upd.v
        shown == rendered.detail.age
    IN /\ rendered.status_text = "Battery Level"
       /\ rendered.detail.kind = "Updated"
       /\ shown.kind = "Just now" <=> age < 60
       /\ shown.kind = "m ago" <=> (60 <= age /\ age < 3600)
       /\ shown.kind = "h ago" <=> age >= 3600
       /\ shown.kind = "m ago" => shown.n * 60 <= age /\ age < (shown.n + 1) * 60
       /\ shown.kind = "h ago" => shown.n * 3600 <= age /\ age < (shown.n + 1) * 3600
       /\ test_rendered.detail = rendered.detail
       /\ test_rendered.status_text = rendered.status_text

C20_Witness ==
  /\ pc = "layout_done"
  /\ render_args.level = Some(850)
  /\ render_args.upd = Some(now - 3600)
  /\ rendered.detail.age = [kind |-> "h ago", n |-> 1]

LastGoodKeptStep ==
  /\ last_successful_battery_level # None => last_successful_battery_level' # None
  /\ last_successful_update_time # None => last_successful_update_time' # None
  /\ last_successful_battery_level = None /\ last_successful_battery_level' # None
       => /\ pc = "returned"
          /\ battery_status # None
          /\ last_successful_battery_level' = battery_status
          /\ last_successful_update_time' = Some(now)

(* C21: between cycles the last good value is present exactly when its     *)
(* timestamp is, and exactly when a fetch has returned a value since the   *)
(* start; both are set in the same step by a successful fetch and neither  *)
(* becomes absent again.                                                   *)
C21_ValueWithTimestamp ==
  /\ [](pc \in {"loop_head", "interval_sleep"}
          => /\ last_successful_battery_level # None
                  <=> last_successful_update_time # None
             /\ last_successful_battery_level # None <=> fetched)
  /\ [][LastGoodKeptStep]_vars

C21_Witness ==
  /\ pc = "loop_head"
  /\ branch = "failure"
  /\ consecutive_failures = 2
  /\ last_successful_battery_level = Some(0)
  /\ last_successful_update_time # None
  /\ last_successful_update_time.v < now

(* C22: a render call with an absent value (header ERROR, dotted bar,      *)
(* footer "Connection Failed") is made only while no fetch has returned a  *)
(* value since the start; after one has, every render call of a failed     *)
(* cycle draws a percentage and the filled bar.                            *)
C22_ErrorScreenOnlyBeforeFirstSuccess ==
  renders = 1 =>
    /\ render_args.level = None
         => /\ ~fetched
            /\ branch \in {"failure", "error"}
            /\ rendered.header.kind = "ERROR"
            /\ rendered.bar.kind = "dotted"
            /\ rendered.status_text = "Connection Failed"
    /\ fetched
         => /\ render_args.level # None
            /\ rendered.header.kind = "pct"
            /\ rendered.bar.kind = "fill"
            /\ rendered.status_text = "Battery Level"

C22_Witness ==
  /\ pc = "check_extended"
  /\ fetched
  /\ consecutive_failures = 3
  /\ render_args.status = "FAILED"
  /\ rendered.header.kind = "pct"

====
